---- MODULE Spec2Model ----
(***************************************************************************)
(* Model of                                                                *)
(*   recipes/deployment/onnx_inference.py  (class OnnxInfer)               *)
(*   trolo/utils/dist_utils.py             (setup_print, infer_ddp_devices)*)
(*                                                                         *)
(* Box coordinates, ratios and the scale are Python/numpy floats in the    *)
(* source.  They are modelled as exact rationals [n, d] in lowest terms;   *)
(* the one place where double rounding changes an integer result, the      *)
(* int(...) truncation of the content size, is modelled by RoundingLoss.   *)
(***************************************************************************)
EXTENDS Integers, Sequences, FiniteSets, TLC

VARIABLES
    infer_resolution,   \* OnnxInfer.infer_resolution
    call,               \* the last OnnxInfer method call and its arguments
    ret,                \* what that call returned or raised
    device,             \* the argument of the last infer_ddp_devices call
    devices,            \* what that call returned or raised
    builtins_print,     \* __builtin__.print: the chain of installed closures
    printed             \* the last print(...) call and what it emitted

vars == <<infer_resolution, call, ret, device, devices, builtins_print, printed>>

(*************************** bounds ***************************************)
MaxDim == 3      \* image width and height range over 0..MaxDim
MaxRes == 3      \* letterbox resolution components range up to MaxRes
MaxDet == 3      \* the detector returns at most MaxDet rows per output
MaxSetup == 3    \* at most MaxSetup setup_print calls are stacked
MaxDevLen == 2   \* free-form device strings have at most MaxDevLen characters

(*************************** rationals ************************************)
Abs(x) == IF x < 0 THEN -x ELSE x

RECURSIVE Gcd(_, _)
Gcd(a, b) == IF b = 0 THEN a ELSE Gcd(b, a % b)

\* n/d in lowest terms with a positive denominator (d # 0)
Frac(n, d) ==
    LET g == Gcd(Abs(n), Abs(d))
        s == IF d < 0 THEN -1 ELSE 1
    IN  [n |-> (s * n) \div g, d |-> (s * d) \div g]

RInt(k) == [n |-> k, d |-> 1]
RAdd(a, b) == Frac(a.n * b.d + b.n * a.d, a.d * b.d)
RSub(a, b) == Frac(a.n * b.d - b.n * a.d, a.d * b.d)
RMul(a, b) == Frac(a.n * b.n, a.d * b.d)
RLe(a, b) == a.n * b.d <= b.n * a.d
RAbs(a) == [n |-> Abs(a.n), d |-> a.d]
RHalf(a) == Frac(a.n, 2 * a.d)

(*************************** arrays ***************************************)
\* A numpy array of boxes: ndim = 2 is shape (len(rows), 4); ndim = 1 is the
\* single row of shape (4,).  A 1-d array of values has ndim = 1, a 0-d
\* scalar ndim = 0.
Boxes2d(rows) == [ndim |-> 2, rows |-> rows]
Boxes1d(row) == [ndim |-> 1, rows |-> <<row>>]

\* ndarray.squeeze() of a detector output with a leading batch axis of 1:
\* every axis of length 1 is dropped, so a single row loses its row axis too.
squeeze_boxes(rows) ==
    IF Len(rows) = 1 THEN Boxes1d(rows[1]) ELSE Boxes2d(rows)

squeeze_vals(vals) ==
    [ndim |-> IF Len(vals) = 1 THEN 0 ELSE 1, vals |-> vals]

(*************************** post_process *********************************)
\* sv.xcycwh_to_xyxy on one row
xcycwh_to_xyxy(b) ==
    << RSub(b[1], RHalf(b[3])), RSub(b[2], RHalf(b[4])),
       RAdd(b[1], RHalf(b[3])), RAdd(b[2], RHalf(b[4])) >>

\* Python int() of a float: truncation toward zero
IntTrunc(r) == IF r.n >= 0 THEN r.n \div r.d ELSE -((-r.n) \div r.d)

\* Sizes <<input_w, input_h, letterbox_w>> for which the double computation
\* letterbox_w / (input_w / input_h) lands just below the exact integer
\* quotient, so that int() yields one less: 9 / (9 / 7) = 6.999999999999999.
\* For every other size and resolution the model draws, in either branch, the
\* double result truncates to the same integer as the exact quotient.
RoundingLoss == { <<9, 7, 9>> }

\* line 119: int(letterbox_w / image_ratio), image_ratio = input_w / input_h # 0
height_new_ratio_inverted(letterbox_w, input_w, input_h) ==
    IntTrunc(Frac(letterbox_w * input_w, input_h))
height_new_of(letterbox_w, input_w, input_h) ==
    IntTrunc(Frac(letterbox_w * input_h, input_w))
      - (IF <<input_w, input_h, letterbox_w>> \in RoundingLoss THEN 1 ELSE 0)

\* line 122: int(letterbox_h * image_ratio)
width_new_rounded(letterbox_h, input_w, input_h) ==
    IntTrunc(Frac(2 * letterbox_h * input_w + input_h, 2 * input_h))
width_new_of(letterbox_h, input_w, input_h) ==
    IntTrunc(Frac(letterbox_h * input_w, input_h))

\* lines 115-122: the content size, or the error raised on the way
letterbox_fit(input_w, input_h, letterbox_w, letterbox_h) ==
    IF letterbox_h = 0 \/ input_h = 0
    THEN [err |-> "ZeroDivisionError", width_new |-> 0, height_new |-> 0]
    ELSE IF RLe(Frac(letterbox_w, letterbox_h), Frac(input_w, input_h))
    THEN IF input_w = 0
         THEN [err |-> "ZeroDivisionError", width_new |-> 0, height_new |-> 0]
         ELSE [err |-> "", width_new |-> letterbox_w,
               height_new |-> height_new_of(letterbox_w, input_w, input_h)]
    ELSE [err |-> "", width_new |-> width_new_of(letterbox_h, input_w, input_h),
          height_new |-> letterbox_h]

\* lines 126-127: Python floor division by 2
padding_forgotten(letterbox, new) == 0
padding_of(letterbox, new) == (letterbox - new) \div 2

\* lines 112-113, 129-133 on one xyxy row
rescale_row(r, letterbox_w, letterbox_h, padding_left, padding_top, scale) ==
    << RMul(RSub(RMul(r[1], RInt(letterbox_w)), RInt(padding_left)), scale),
       RMul(RSub(RMul(r[2], RInt(letterbox_h)), RInt(padding_top)), scale),
       RMul(RSub(RMul(r[3], RInt(letterbox_w)), RInt(padding_left)), scale),
       RMul(RSub(RMul(r[4], RInt(letterbox_h)), RInt(padding_top)), scale) >>

\* the locals of post_process; computed is FALSE until lines 117-122 ran
NoFit == [computed |-> FALSE, width_new |-> 0, height_new |-> 0,
          padding_left |-> 0, padding_top |-> 0, scale |-> RInt(0)]

\* line 124
scale_inverted(input_w, width_new) == Frac(width_new, input_w)
scale_of(input_w, width_new) == Frac(input_w, width_new)

\* an exception of kind e leaving the method: nothing is returned
Raised(e) == [status |-> "raise", err |-> e, boxes |-> <<>>, fit |-> NoFit,
              dets |-> <<>>, annotated |-> FALSE, shown |-> FALSE,
              saved |-> FALSE]

\* OnnxInfer.post_process(resolution_wh, boxes) with self.infer_resolution = res
post_process(res, resolution_wh, boxes) ==
    IF boxes.ndim # 2 THEN Raised("IndexError")             \* line 108: [:, 0]
    ELSE IF res.kind # "pair" THEN Raised("TypeError")      \* line 110
    ELSE
      LET input_w == resolution_wh[1]
          input_h == resolution_wh[2]
          letterbox_w == res.w
          letterbox_h == res.h
          f == letterbox_fit(input_w, input_h, letterbox_w, letterbox_h)
      IN  IF f.err # "" THEN Raised(f.err)
          ELSE IF f.width_new = 0                           \* line 124
          THEN [Raised("ZeroDivisionError") EXCEPT
                  !.fit = [NoFit EXCEPT !.computed = TRUE,
                                        !.width_new = f.width_new,
                                        !.height_new = f.height_new]]
          ELSE
            LET scale == scale_of(input_w, f.width_new)
                padding_top == padding_of(letterbox_h, f.height_new)
                padding_left == padding_of(letterbox_w, f.width_new)
            IN  [status |-> "ok", err |-> "",
                 boxes |-> [i \in 1..Len(boxes.rows) |->
                              rescale_row(xcycwh_to_xyxy(boxes.rows[i]),
                                          letterbox_w, letterbox_h,
                                          padding_left, padding_top, scale)],
                 fit |-> [computed |-> TRUE,
                          width_new |-> f.width_new,
                          height_new |-> f.height_new,
                          padding_left |-> padding_left,
                          padding_top |-> padding_top,
                          scale |-> scale],
                 dets |-> <<>>, annotated |-> FALSE, shown |-> FALSE,
                 saved |-> FALSE]

(*************************** OnnxInfer ************************************)
IntRes(k) == [kind |-> "int", n |-> k, w |-> 0, h |-> 0]
PairRes(w, h) == [kind |-> "pair", n |-> 0, w |-> w, h |-> h]

\* OnnxInfer.__init__: line 38 stores the pair for an integer argument and
\* line 39 then stores the argument itself, whatever it is.
init_resolution(arg) ==
    LET line38 == IF arg.kind = "int" THEN PairRes(arg.n, arg.n) ELSE arg
        line39 == arg
    IN  line39

\* sv.letterbox_image inside preprocess.  An integer resolution cannot be
\* unpacked.  For a resolution or a content size with a component below 1
\* the resize is left to the imaging library, which may reject it.
degenerate(res, size) ==
    \/ res.w < 1 \/ res.h < 1 \/ size[1] < 1 \/ size[2] < 1
    \/ LET f == letterbox_fit(size[1], size[2], res.w, res.h)
       IN  f.err # "" \/ f.width_new < 1 \/ f.height_new < 1

preprocess_errors(res, size) ==
    IF res.kind # "pair" THEN {"TypeError"}
    ELSE IF degenerate(res, size) THEN {"LibraryError", ""}
    ELSE {""}

\* sv.Detections(xyxy, confidence, class_id): the constructor validates that
\* confidence and class_id are 1-d arrays with one entry per row of xyxy.
detections_valid(xyxy, confidence, class_id) ==
    /\ confidence.ndim = 1 /\ Len(confidence.vals) = Len(xyxy)
    /\ class_id.ndim = 1 /\ Len(class_id.vals) = Len(xyxy)

\* line 70: detections[detections.confidence > conf_threshold]
RECURSIVE keep(_, _, _, _, _)
keep(xyxy, confidence, class_id, conf_threshold, i) ==
    IF i > Len(xyxy) THEN <<>>
    ELSE (IF confidence[i] > conf_threshold
          THEN << [box |-> xyxy[i], label |-> class_id[i],
                   score |-> confidence[i]] >>
          ELSE <<>>)
         \o keep(xyxy, confidence, class_id, conf_threshold, i + 1)

\* lines 64-76 of infer, after the image was loaded and preprocessed
infer_tail(res, size, labels, boxes, scores, conf_threshold, vis, output_path) ==
    LET class_id == squeeze_vals(labels)
        confidence == squeeze_vals(scores)
        pp == post_process(res, size, squeeze_boxes(boxes))
    IN  IF pp.status # "ok" THEN pp
        ELSE IF ~detections_valid(pp.boxes, confidence, class_id)
        THEN Raised("ValueError")
        ELSE [pp EXCEPT
                !.dets = keep(pp.boxes, confidence.vals, class_id.vals,
                              conf_threshold, 1),
                !.annotated = TRUE,
                !.shown = vis,
                !.saved = output_path]

\* OnnxInfer.infer.  loaded: Image.open succeeded; pre: what preprocess raised
\* ("" when it returned the tensor).
infer(res, loaded, size, pre, labels, boxes, scores, conf_threshold, vis, output_path) ==
    IF ~loaded THEN Raised("FileNotFoundError")                  \* line 60
    ELSE IF pre # "" THEN Raised(pre)                            \* line 61
    ELSE infer_tail(res, size, labels, boxes, scores, conf_threshold, vis,
                    output_path)

(*************************** inputs ***************************************)
\* the centre-form box, normalised to an image of side D, of the corner box
CornerBox(D, x1, y1, x2, y2) ==
    << Frac(x1 + x2, 2 * D), Frac(y1 + y2, 2 * D),
       Frac(x2 - x1, D), Frac(y2 - y1, D) >>

ExampleBox == << Frac(1, 2), Frac(1, 2), Frac(1, 10), Frac(1, 10) >>

\* the corner boxes x1 <= x2, y1 <= y2 with corners in 0..D
Corners(D) ==
    { q \in (0..D) \X (0..D) \X (0..D) \X (0..D) :
        q[1] <= q[3] /\ q[2] <= q[4] }

RawBoxes ==
    UNION { { CornerBox(D, c[1], c[2], c[3], c[4]) : c \in Corners(D) } :
              D \in 1..MaxDim }
    \cup { ExampleBox }

ImageSizes == ((0..MaxDim) \X (0..MaxDim)) \cup { <<1280, 720>>, <<9, 7>> }

ResArgs ==
    { IntRes(k) : k \in 1..MaxRes }
    \cup { PairRes(p[1], p[2]) : p \in (0..MaxRes) \X (0..MaxRes) }
    \cup { PairRes(-1, 1), PairRes(1, -1), PairRes(640, 640), PairRes(9, 7) }

\* the pipeline's inputs
PipeResArgs ==
    { IntRes(2), PairRes(2, 2), PairRes(3, 2), PairRes(0, 2),
      PairRes(640, 640) }

PipeImages ==
    { [loaded |-> TRUE, size |-> z] :
        z \in { <<2, 2>>, <<3, 2>>, <<1, 3>>, <<1280, 720>> } }
    \cup { [loaded |-> FALSE, size |-> <<0, 0>>] }

\* confidences and thresholds, in tenths
Scores == {4, 5, 6}

RECURSIVE SeqsUpTo(_, _)
SeqsUpTo(S, k) ==
    IF k = 0 THEN { <<>> }
    ELSE SeqsUpTo(S, k - 1)
         \cup { Append(q, x) : q \in { r \in SeqsUpTo(S, k - 1) : Len(r) = k - 1 },
                               x \in S }

ScoreSeqs == SeqsUpTo(Scores, MaxDet)

\* row i of the detector's output: label i and a box of its own
DetLabels == [i \in 1..MaxDet |-> i]
DetRows == [i \in 1..MaxDet |->
              << Frac(1, 2), Frac(1, 2), Frac(1, i + 1), Frac(1, 2) >>]

NoDevice == [kind |-> "unset", n |-> 0, s |-> <<>>, l |-> <<>>,
             cuda_available |-> FALSE, device_count |-> 0]
NoDevices == [status |-> "none", err |-> "", value |-> <<>>]
NoPrinted == [called |-> FALSE, force |-> "absent", emitted |-> FALSE,
              force_passed |-> FALSE, err |-> ""]

NoCall == [op |-> "none", size |-> <<0, 0>>, boxes |-> Boxes2d(<<>>),
           labels |-> <<>>, rows |-> <<>>, scores |-> <<>>,
           conf_threshold |-> 0, vis |-> FALSE, output_path |-> FALSE,
           loaded |-> FALSE]

NoRet == [status |-> "none", err |-> "", boxes |-> <<>>, fit |-> NoFit,
          dets |-> <<>>, annotated |-> FALSE, shown |-> FALSE, saved |-> FALSE]

(*************************** OnnxInfer actions ****************************)
dist_unchanged == UNCHANGED <<device, devices, builtins_print, printed>>

\* The caller takes the returned value (or handles the exception); the object
\* is then ready for its next call.
Return ==
    /\ call.op # "none"
    /\ call' = NoCall
    /\ ret' = NoRet
    /\ UNCHANGED infer_resolution
    /\ dist_unchanged

\* post_process(resolution_wh, boxes) called with a size and an array
CallPostProcess(sizes, arrays) ==
    /\ call.op = "none"
    /\ \E size \in sizes, boxes \in arrays :
        /\ call' = [NoCall EXCEPT !.op = "post_process", !.size = size,
                                  !.boxes = boxes]
        /\ ret' = post_process(infer_resolution, size, boxes)
        /\ UNCHANGED infer_resolution
        /\ dist_unchanged

PostArrays ==
    { Boxes2d(<<b>>) : b \in RawBoxes }
    \cup { Boxes2d(<<>>), Boxes1d(ExampleBox) }

\* infer(input_path, conf_threshold, vis, output_path); the detector returns
\* labels, boxes and scores with a batch axis of 1
CallInfer ==
    /\ call.op = "none"
    /\ \E img \in PipeImages, n \in 0..MaxDet, m \in 0..MaxDet,
          scores \in ScoreSeqs, conf_threshold \in Scores,
          vis \in BOOLEAN, output_path \in BOOLEAN :
        \E pre \in preprocess_errors(infer_resolution, img.size) :
            /\ call' = [NoCall EXCEPT !.op = "infer", !.size = img.size,
                          !.loaded = img.loaded,
                          !.labels = SubSeq(DetLabels, 1, n),
                          !.rows = SubSeq(DetRows, 1, m),
                          !.scores = scores,
                          !.conf_threshold = conf_threshold,
                          !.vis = vis, !.output_path = output_path]
            /\ ret' = infer(infer_resolution, img.loaded, img.size, pre,
                            SubSeq(DetLabels, 1, n), SubSeq(DetRows, 1, m),
                            scores, conf_threshold, vis, output_path)
            /\ UNCHANGED infer_resolution
            /\ dist_unchanged

\* preprocess(image): returns the tensor or raises
CallPreprocess ==
    /\ call.op = "none"
    /\ \E img \in { i \in PipeImages : i.loaded } :
        \E pre \in preprocess_errors(infer_resolution, img.size) :
            /\ call' = [NoCall EXCEPT !.op = "preprocess", !.size = img.size,
                                      !.loaded = TRUE]
            /\ ret' = IF pre # "" THEN Raised(pre)
                      ELSE [NoRet EXCEPT !.status = "ok"]
            /\ UNCHANGED infer_resolution
            /\ dist_unchanged

\* annotate(image, detections): returns the annotated copy of the image
CallAnnotate ==
    /\ call.op = "none"
    /\ \E img \in { i \in PipeImages : i.loaded }, n \in 0..MaxDet :
        /\ call' = [NoCall EXCEPT !.op = "annotate", !.size = img.size,
                                  !.loaded = TRUE,
                                  !.labels = SubSeq(DetLabels, 1, n)]
        /\ ret' = [NoRet EXCEPT !.status = "ok", !.annotated = TRUE]
        /\ UNCHANGED infer_resolution
        /\ dist_unchanged

InitPipe ==
    /\ infer_resolution \in { init_resolution(a) : a \in PipeResArgs }
    /\ call = NoCall
    /\ ret = NoRet
    /\ device = NoDevice
    /\ devices = NoDevices
    /\ builtins_print = <<>>
    /\ printed = NoPrinted

InitOnnx ==
    /\ infer_resolution \in { init_resolution(a) : a \in ResArgs }
    /\ call = NoCall
    /\ ret = NoRet
    /\ device = NoDevice
    /\ devices = NoDevices
    /\ builtins_print = <<>>
    /\ printed = NoPrinted

NextPost == CallPostProcess(ImageSizes, PostArrays) \/ Return

SpecPost == InitOnnx /\ [][NextPost]_vars

PipeArrays == { Boxes2d(<<ExampleBox>>), Boxes2d(<<>>), Boxes1d(ExampleBox) }

Next ==
    \/ CallInfer
    \/ CallPreprocess
    \/ CallPostProcess({ i.size : i \in PipeImages }, PipeArrays)
    \/ CallAnnotate
    \/ Return

Spec == InitPipe /\ [][Next]_vars

(*************************** post_process: claims *************************)
PostCall == call.op = "post_process" /\ call.boxes.ndim = 2

\* W, H >= 1 and a (lw, lh) resolution with lw, lh >= 1
ValidGeometry ==
    /\ infer_resolution.kind = "pair"
    /\ infer_resolution.w >= 1 /\ infer_resolution.h >= 1
    /\ call.size[1] >= 1 /\ call.size[2] >= 1

CentreBox ==
    /\ Len(call.boxes.rows) = 1
    /\ call.boxes.rows[1][1] = Frac(1, 2)
    /\ call.boxes.rows[1][2] = Frac(1, 2)

centre_x(b) == RHalf(RAdd(b[1], b[3]))
centre_y(b) == RHalf(RAdd(b[2], b[4]))

ExampleCall ==
    /\ PostCall
    /\ infer_resolution = PairRes(640, 640)
    /\ call.size = <<1280, 720>>
    /\ call.boxes.rows = <<ExampleBox>>

ExampleCentre ==
    /\ ret.status = "ok"
    /\ centre_x(ret.boxes[1]) = RInt(640)
    /\ centre_y(ret.boxes[1]) = RInt(360)

WithinOf(v, target, tol) == RLe(RAbs(RSub(v, target)), tol)

Max(a, b) == IF a >= b THEN a ELSE b

\* C1 as stated: post_process maps a centre-form box with xc = yc = 0.5 to a
\* box whose centre is (W/2, H/2) to within one original pixel on each axis,
\* for every W, H, lw, lh >= 1; for 1280x720 at 640x640 it is (640, 360).
C1_CentreWithinOnePixel ==
    (PostCall /\ ValidGeometry /\ CentreBox) =>
        /\ ret.status = "ok"
        /\ WithinOf(centre_x(ret.boxes[1]), Frac(call.size[1], 2), RInt(1))
        /\ WithinOf(centre_y(ret.boxes[1]), Frac(call.size[2], 2), RInt(1))
        /\ (ExampleCall => ExampleCentre)

\* C1 amended: if lh*W < H the content width truncates to 0 and the call
\* raises ZeroDivisionError (and it raises only if lh*W <= H); otherwise the
\* centre is within max(W, H) / (2 * content_width) of (W/2, H/2) on each
\* axis, exactly (W/2, H/2) when both paddings are whole and the fit is exact,
\* and (640, 360) for 1280x720 at 640x640.
C1_CentreWithinHalfContentPixel ==
    (PostCall /\ ValidGeometry /\ CentreBox) =>
        LET W == call.size[1]
            H == call.size[2]
            lw == infer_resolution.w
            lh == infer_resolution.h
            f == ret.fit
            tol == Frac(Max(W, H), 2 * f.width_new)
        IN  /\ (lh * W < H) => ret.status = "raise"
            /\ ret.status = "raise" =>
                 /\ ret.err = "ZeroDivisionError"
                 /\ f.computed /\ f.width_new = 0
                 /\ lh * W <= H
            /\ ret.status = "ok" =>
                 /\ f.width_new >= 1
                 /\ WithinOf(centre_x(ret.boxes[1]), Frac(W, 2), tol)
                 /\ WithinOf(centre_y(ret.boxes[1]), Frac(H, 2), tol)
                 /\ ( /\ (lw - f.width_new) % 2 = 0
                      /\ (lh - f.height_new) % 2 = 0
                      /\ f.width_new * H = f.height_new * W )
                    => /\ centre_x(ret.boxes[1]) = Frac(W, 2)
                       /\ centre_y(ret.boxes[1]) = Frac(H, 2)
            /\ ExampleCall => ExampleCentre

C1_Witness == ExampleCall /\ ExampleCentre

\* a centre more than one pixel off: 3x2 image at resolution (2, 1)
C1_OffCentreReached ==
    /\ PostCall /\ ValidGeometry /\ CentreBox /\ ret.status = "ok"
    /\ ~WithinOf(centre_x(ret.boxes[1]), Frac(call.size[1], 2), RInt(1))

\* C2 as stated: for every image and resolution with components >= 1 the
\* transform has content_width, content_height >= 1, content_width <= lw,
\* content_height <= lh, exactly one of the two equal to its bound, and
\* pad_left, pad_top >= 0.
C2_LetterboxInvariant ==
    (PostCall /\ ValidGeometry) =>
        LET f == ret.fit
            lw == infer_resolution.w
            lh == infer_resolution.h
        IN  /\ ret.status = "ok"
            /\ f.width_new >= 1 /\ f.height_new >= 1
            /\ f.width_new <= lw /\ f.height_new <= lh
            /\ (f.width_new = lw) # (f.height_new = lh)
            /\ f.padding_left >= 0 /\ f.padding_top >= 0

\* C2 amended: 0 <= content_width <= lw, 0 <= content_height <= lh, at
\* least one of the two equals its bound (both do when the aspect ratios
\* agree), and the paddings are >= 0.  content_width is 0 exactly when
\* lh*W < H up to rounding; then scale is undefined and the call raises
\* ZeroDivisionError.  Otherwise scale = W / content_width > 0.
C2_LetterboxBounds ==
    (PostCall /\ ValidGeometry) =>
        LET f == ret.fit
            W == call.size[1]
            H == call.size[2]
            lw == infer_resolution.w
            lh == infer_resolution.h
        IN  /\ f.computed
            /\ 0 <= f.width_new /\ f.width_new <= lw
            /\ 0 <= f.height_new /\ f.height_new <= lh
            /\ (f.width_new = lw \/ f.height_new = lh)
            /\ (W * lh = lw * H /\ <<W, H, lw>> \notin RoundingLoss)
                 => (f.width_new = lw /\ f.height_new = lh)
            /\ f.padding_left >= 0 /\ f.padding_top >= 0
            /\ (lh * W < H) => f.width_new = 0
            /\ f.width_new = 0 =>
                 (ret.status = "raise" /\ ret.err = "ZeroDivisionError"
                    /\ lh * W <= H)
            /\ f.width_new >= 1 =>
                 (ret.status = "ok" /\ f.scale = Frac(W, f.width_new)
                    /\ f.scale.n > 0)

\* a square image at a square resolution: both dimensions reach their bound
C2_Witness ==
    /\ PostCall /\ ValidGeometry /\ ret.status = "ok"
    /\ ret.fit.width_new = infer_resolution.w
    /\ ret.fit.height_new = infer_resolution.h

\* a 1x3 image at (2, 2): the content width truncates to 0
C2_ZeroContentReached ==
    /\ PostCall /\ ValidGeometry /\ ret.status = "raise"
    /\ ret.fit.computed /\ ret.fit.width_new = 0

\* C3: for a square image of side S and a square resolution (N, N),
\* post_process uses pad_left = pad_top = 0 and scale = S / N, and maps the
\* centre-form box of the corners (x1, y1, x2, y2) back to those corners.
C3_SquareRoundTrip ==
    (PostCall /\ ValidGeometry /\ Len(call.boxes.rows) = 1
       /\ infer_resolution.w = infer_resolution.h
       /\ call.size[1] = call.size[2]) =>
        LET S == call.size[1]
            N == infer_resolution.w
        IN  /\ ret.status = "ok"
            /\ ret.fit.padding_left = 0 /\ ret.fit.padding_top = 0
            /\ ret.fit.scale = Frac(S, N)
            /\ (S = N => ret.fit.scale = RInt(1))
            /\ \A x1, y1, x2, y2 \in 0..S :
                 call.boxes.rows[1] = CornerBox(S, x1, y1, x2, y2) =>
                   ret.boxes[1] = <<RInt(x1), RInt(y1), RInt(x2), RInt(y2)>>

C3_Witness ==
    /\ PostCall /\ ret.status = "ok"
    /\ infer_resolution = PairRes(2, 2)
    /\ call.size = <<3, 3>>
    /\ call.boxes.rows = <<CornerBox(3, 1, 0, 3, 2)>>
    /\ ret.boxes[1] = <<RInt(1), RInt(0), RInt(3), RInt(2)>>

ZeroOrNegativeInput ==
    \/ call.size[1] = 0 \/ call.size[2] = 0
    \/ /\ infer_resolution.kind = "pair"
       /\ (infer_resolution.w <= 0 \/ infer_resolution.h <= 0)

\* C6 as stated: with a zero image width or height, or a non-positive
\* resolution component, the call fails with the InvalidInput error kind; it
\* neither returns boxes nor fails with another kind.
C6_InvalidInputRaised ==
    (PostCall /\ ZeroOrNegativeInput) =>
        ret.status = "raise" /\ ret.err = "InvalidInput"

\* a negative resolution component: boxes are returned, nothing is raised
C6_NegativeResolutionReturns ==
    /\ PostCall /\ infer_resolution = PairRes(-1, 1) /\ call.size = <<2, 2>>
    /\ ret.status = "ok"

\* C8 as stated: the fit is uniform, content_width * H = content_height * W.
C8_UniformFit ==
    (PostCall /\ ValidGeometry /\ ret.fit.computed) =>
        ret.fit.width_new * call.size[2] = ret.fit.height_new * call.size[1]

\* C8 amended: the fit is uniform up to the truncation of the fitted
\* dimension.  When W/H >= lw/lh: content_width = lw and
\* 0 <= lw*H - content_height*W <= W.  Otherwise content_height = lh and
\* 0 <= lh*W - content_width*H <= H.
C8_UniformUpToTruncation ==
    (PostCall /\ ValidGeometry) =>
        LET W == call.size[1]
            H == call.size[2]
            lw == infer_resolution.w
            lh == infer_resolution.h
            f == ret.fit
        IN  /\ f.computed
            /\ IF W * lh >= lw * H
               THEN /\ f.width_new = lw
                    /\ 0 <= lw * H - f.height_new * W
                    /\ lw * H - f.height_new * W <= W
               ELSE /\ f.height_new = lh
                    /\ 0 <= lh * W - f.width_new * H
                    /\ lh * W - f.width_new * H <= H

\* a fit that is not uniform: 3x2 image at (2, 2) gives content 2x1
C8_Witness ==
    /\ PostCall /\ ValidGeometry /\ ret.fit.computed
    /\ ret.fit.width_new * call.size[2] # ret.fit.height_new * call.size[1]

(*************************** infer: claims ********************************)
\* an image that loaded, a (lw, lh) resolution with components >= 1 and a
\* content region of at least one pixel each way
InferCall ==
    /\ call.op = "infer" /\ call.loaded
    /\ ValidGeometry
    /\ ~degenerate(infer_resolution, call.size)

EqualLengths ==
    /\ Len(call.labels) = Len(call.rows)
    /\ Len(call.scores) = Len(call.rows)

\* the box of row i alone, mapped to the original image
OwnBox(i) ==
    post_process(infer_resolution, call.size, Boxes2d(<<call.rows[i]>>)).boxes[1]

Detected ==
    [i \in 1..Len(call.rows) |->
        [box |-> OwnBox(i), label |-> call.labels[i],
         score |-> call.scores[i]]]

AboveThreshold(t) == t.score > call.conf_threshold

\* C4 as stated: for every sequence of detections and every conf_threshold,
\* infer returns exactly the subsequence, in model output order, of the
\* detections with score > conf_threshold, each with its own box, label and
\* score; possibly empty, never an error.
C4_FilteredSubsequence ==
    (InferCall /\ EqualLengths) =>
        /\ ret.status = "ok"
        /\ ret.dets = SelectSeq(Detected, AboveThreshold)

\* what does hold: the same, for every output but one of exactly one row
C4_ExceptSingleRow ==
    (InferCall /\ EqualLengths) =>
        IF Len(call.rows) = 1
        THEN ret.status = "raise" /\ ret.err = "IndexError"
        ELSE /\ ret.status = "ok"
             /\ ret.dets = SelectSeq(Detected, AboveThreshold)

C4_FilteredReached ==
    /\ InferCall /\ EqualLengths /\ ret.status = "ok"
    /\ Len(call.rows) = 3 /\ Len(ret.dets) = 2
    /\ ret.dets[1].label = 1 /\ ret.dets[2].label = 3

\* C5 as stated: when labels, boxes and scores do not all have the same
\* length, infer fails with a ShapeMismatch error and returns, annotates,
\* shows and saves nothing.
C5_ShapeMismatchRaised ==
    (InferCall /\ ~EqualLengths) =>
        /\ ret.status = "raise" /\ ret.err = "ShapeMismatch"
        /\ ret.dets = <<>>
        /\ ~ret.annotated /\ ~ret.shown /\ ~ret.saved

\* what does hold: the call raises ValueError (IndexError for one box row)
\* and nothing is returned, annotated, shown or saved
C5_SomeErrorRaised ==
    (InferCall /\ ~EqualLengths) =>
        /\ ret.status = "raise"
        /\ ret.err = (IF Len(call.rows) = 1 THEN "IndexError" ELSE "ValueError")
        /\ ret.dets = <<>>
        /\ ~ret.annotated /\ ~ret.shown /\ ~ret.saved

\* C10 as stated: after construction infer_resolution is a (width, height)
\* pair, (N, N) for an integer argument N, no call changes it, and
\* post_process can always unpack it.
C10_ResolutionIsPair ==
    /\ infer_resolution.kind = "pair"
    /\ (call.op = "post_process" /\ call.boxes.ndim = 2) => ret.err # "TypeError"

\* what does hold: no call changes infer_resolution
C10_ResolutionUnchanged == [][infer_resolution' = infer_resolution]_vars

C10_UnpackFailureReached ==
    /\ infer_resolution.kind = "int"
    /\ call.op = "post_process" /\ call.boxes.ndim = 2
    /\ ret.status = "raise" /\ ret.err = "TypeError"

(*************************** infer_ddp_devices ****************************)
\* Python strings are sequences of one-character strings.
DecimalChars == {"0", "1", "2"}
\* str.isdigit() also accepts digits that int() rejects, such as SUPERSCRIPT TWO
DigitChars == DecimalChars \cup {"sup2"}

DecimalOf(c) == CASE c = "0" -> 0 [] c = "1" -> 1 [] c = "2" -> 2 [] OTHER -> 0

isdigit(s) == Len(s) > 0 /\ \A i \in 1..Len(s) : s[i] \in DigitChars

RECURSIVE DecimalValue(_)
DecimalValue(s) ==
    IF s = <<>> THEN 0
    ELSE 10 * DecimalValue(SubSeq(s, 1, Len(s) - 1)) + DecimalOf(s[Len(s)])

RECURSIVE strip(_)
strip(s) ==
    IF s = <<>> THEN s
    ELSE IF Head(s) = " " THEN strip(Tail(s))
    ELSE IF s[Len(s)] = " " THEN strip(SubSeq(s, 1, Len(s) - 1))
    ELSE s

\* int(s) for a string: surrounding blanks, an optional sign, decimal digits
int_of_str(s) ==
    LET t == strip(s)
        signed == t # <<>> /\ Head(t) \in {"-", "+"}
        body == IF signed THEN Tail(t) ELSE t
    IN  IF body # <<>> /\ \A i \in 1..Len(body) : body[i] \in DecimalChars
        THEN [ok |-> TRUE,
              v |-> IF signed /\ Head(t) = "-" THEN -DecimalValue(body)
                    ELSE DecimalValue(body)]
        ELSE [ok |-> FALSE, v |-> 0]

RECURSIVE split(_, _)
split(s, sep) ==
    IF \E i \in 1..Len(s) : s[i] = sep
    THEN LET i == CHOOSE k \in 1..Len(s) :
                    s[k] = sep /\ \A j \in 1..(k - 1) : s[j] # sep
         IN  <<SubSeq(s, 1, i - 1)>> \o split(SubSeq(s, i + 1, Len(s)), sep)
    ELSE <<s>>

startswith(s, prefix) ==
    Len(s) >= Len(prefix) /\ SubSeq(s, 1, Len(prefix)) = prefix

contains(s, c) == \E i \in 1..Len(s) : s[i] = c

StrCpu == <<"c", "p", "u">>
StrCuda == <<"c", "u", "d", "a">>
StrCudaColon == <<"c", "u", "d", "a", ":">>
StrCudaAll == <<"c", "u", "d", "a", ":", "a", "l", "l">>

\* device values and list elements
DevNone == [kind |-> "none", n |-> 0, s |-> <<>>, l |-> <<>>]
DevInt(k) == [kind |-> "int", n |-> k, s |-> <<>>, l |-> <<>>]
DevStr(s) == [kind |-> "str", n |-> 0, s |-> s, l |-> <<>>]
DevList(l) == [kind |-> "list", n |-> 0, s |-> <<>>, l |-> l]

Returned(v) == [status |-> "ok", err |-> "", value |-> v]
RaisedDev(e) == [status |-> "raise", err |-> e, value |-> <<>>]

\* line 312: [int(d.strip()) for d in device.split(",")], or ValueError
comma_devices(s) ==
    LET parts == split(s, ",")
        ints == [i \in 1..Len(parts) |-> int_of_str(strip(parts[i]))]
    IN  IF \A i \in 1..Len(parts) : ints[i].ok
        THEN Returned([i \in 1..Len(parts) |-> DevInt(ints[i].v)])
        ELSE RaisedDev("ValueError")

\* line 325: digit strings of a list become integers
list_element(d) ==
    IF d.kind = "str" /\ isdigit(d.s)
    THEN (IF int_of_str(d.s).ok THEN [ok |-> TRUE, v |-> DevInt(int_of_str(d.s).v)]
          ELSE [ok |-> FALSE, v |-> d])
    ELSE [ok |-> TRUE, v |-> d]

\* infer_ddp_devices(device), lines 299-327
infer_ddp_devices(d, cuda_available, device_count) ==
    IF d.kind = "none"
    THEN Returned(IF cuda_available THEN <<DevInt(0)>> ELSE <<DevStr(StrCpu)>>)
    ELSE IF d.kind = "str" /\ d.s = StrCpu THEN Returned(<<DevStr(StrCpu)>>)
    ELSE IF d.kind = "str" /\ d.s = StrCuda THEN Returned(<<DevInt(0)>>)
    ELSE IF d.kind = "int"
    THEN IF d.n >= 0 THEN Returned(<<DevInt(d.n)>>)     \* str(device).isdigit()
         ELSE RaisedDev("AttributeError")               \* line 316: int.startswith
    ELSE IF d.kind = "str"
    THEN IF isdigit(d.s)
         THEN (IF int_of_str(d.s).ok THEN Returned(<<DevInt(int_of_str(d.s).v)>>)
               ELSE RaisedDev("ValueError"))            \* line 308: int() fails
         ELSE IF contains(d.s, ",") THEN comma_devices(d.s)
         ELSE IF startswith(d.s, StrCudaColon)
         THEN IF d.s = StrCudaAll
              THEN Returned([i \in 1..device_count |-> DevInt(i - 1)])
              ELSE LET k == int_of_str(split(d.s, ":")[2])
                   IN  IF k.ok THEN Returned(<<DevInt(k.v)>>)
                       ELSE RaisedDev("ValueError")
         ELSE RaisedDev("ValueError")                   \* line 327
    ELSE \* a list
         IF \A i \in 1..Len(d.l) : list_element(d.l[i]).ok
         THEN Returned([i \in 1..Len(d.l) |-> list_element(d.l[i]).v])
         ELSE RaisedDev("ValueError")

DevChars == {"0", "1", ",", " ", "-", ":"}

DeviceStrings ==
    SeqsUpTo(DevChars, MaxDevLen)
    \cup { StrCpu, StrCuda, StrCudaColon, StrCudaAll,
           StrCudaColon \o <<"0">>, StrCudaColon \o <<"1">>,
           StrCudaColon \o <<"x">>, StrCudaColon \o <<"1", ":", "0">>,
           <<"0", ",", "1", ",", "2">>, <<"0", ",", " ", "1">>,
           <<"0", ",", "a">>, <<"g", "p", "u">>, <<"sup2">>, <<"1", "0">> }

ListElements ==
    { DevInt(0), DevInt(1), DevStr(<<"0">>), DevStr(<<"1">>),
      DevStr(<<"a">>), DevStr(StrCpu) }

Devices ==
    { DevNone }
    \cup { DevInt(k) : k \in -2..2 }
    \cup { DevStr(s) : s \in DeviceStrings }
    \cup { DevList(l) : l \in SeqsUpTo(ListElements, 2) }

onnx_unchanged == UNCHANGED <<infer_resolution, call, ret>>

CallInferDdpDevices ==
    \E d \in Devices, cuda_available \in BOOLEAN, device_count \in 0..2 :
        /\ device' = [kind |-> d.kind, n |-> d.n, s |-> d.s, l |-> d.l,
                      cuda_available |-> cuda_available,
                      device_count |-> device_count]
        /\ devices' = infer_ddp_devices(d, cuda_available, device_count)
        /\ onnx_unchanged
        /\ UNCHANGED <<builtins_print, printed>>

InitDist ==
    /\ infer_resolution = PairRes(640, 640)
    /\ call = NoCall
    /\ ret = NoRet
    /\ device = NoDevice
    /\ devices = NoDevices
    /\ builtins_print = <<>>
    /\ printed = NoPrinted

NextDev == CallInferDdpDevices

SpecDev == InitDist /\ [][NextDev]_vars

\* C7 as stated: for every device argument (None, an integer, a string or a
\* list) infer_ddp_devices returns the documented list of device ids or raises
\* ValueError; it never fails with another kind of error.
C7_ListOrValueError ==
    (devices.status # "none") =>
        /\ devices.status = "raise" => devices.err = "ValueError"
        /\ (device.kind = "str" /\ device.s = StrCpu)
             => devices = Returned(<<DevStr(StrCpu)>>)
        /\ (device.kind = "str" /\ device.s = StrCuda)
             => devices = Returned(<<DevInt(0)>>)
        /\ (device.kind = "str" /\ device.s = StrCudaColon \o <<"1">>)
             => devices = Returned(<<DevInt(1)>>)
        /\ (device.kind = "int" /\ device.n >= 0)
             => devices = Returned(<<DevInt(device.n)>>)
        /\ (device.kind = "str" /\ device.s = <<"1", "0">>)
             => devices = Returned(<<DevInt(10)>>)
        /\ (device.kind = "str" /\ device.s = <<"0", ",", "1", ",", "2">>)
             => devices = Returned(<<DevInt(0), DevInt(1), DevInt(2)>>)
        /\ (device.kind = "list" /\ device.l = <<DevStr(<<"0">>), DevInt(1)>>)
             => devices = Returned(<<DevInt(0), DevInt(1)>>)
        /\ (device.kind = "str" /\ device.s = StrCudaAll)
             => devices = Returned([i \in 1..device.device_count |-> DevInt(i - 1)])

\* what does hold: the same for every argument but a negative integer
C7_ExceptNegativeInteger ==
    (devices.status = "raise") =>
        IF device.kind = "int" /\ device.n < 0
        THEN devices.err = "AttributeError"
        ELSE devices.err = "ValueError"

C7_AttributeErrorReached ==
    /\ device.kind = "int" /\ device.n = -1
    /\ devices = RaisedDev("AttributeError")

(*************************** setup_print **********************************)
\* builtins_print is the chain of closures installed by setup_print, the
\* newest last.  A closure installed with method "builtin" calls what
\* __builtin__.print was when it was installed: the closure before it, or the
\* interpreter's print at the bottom.  One installed with "rich" calls
\* rich.print.

\* whether calling closure i with the given force reaches the output
RECURSIVE emits(_, _, _)
emits(chain, i, force) ==
    IF i = 0 THEN TRUE
    ELSE /\ (chain[i].is_main \/ force)                    \* line 80
         /\ IF chain[i].method = "rich" THEN TRUE
            ELSE emits(chain, i - 1, FALSE)                \* line 81, force popped

\* setup_print(is_main, method), lines 63-83
setup_print(is_main, method) ==
    IF method \in {"builtin", "rich"}
    THEN /\ Len(builtins_print) < MaxSetup
         /\ builtins_print' =
                Append(builtins_print, [is_main |-> is_main, method |-> method])
         /\ printed' = NoPrinted
    ELSE /\ builtins_print' = builtins_print
         /\ printed' = [NoPrinted EXCEPT !.err = "AttributeError"]   \* line 76

CallSetupPrint ==
    /\ \E is_main \in BOOLEAN, method \in {"builtin", "rich", "plain"} :
           setup_print(is_main, method)
    /\ onnx_unchanged
    /\ UNCHANGED <<device, devices>>

\* setup_distributed, line 56: setup_print(get_rank() == print_rank, ...)
CallSetupDistributed ==
    /\ \E rank \in 0..1, print_rank \in 0..1, print_method \in {"builtin", "rich"} :
           setup_print(rank = print_rank, print_method)
    /\ onnx_unchanged
    /\ UNCHANGED <<device, devices>>

\* print(..., force=...) or print(...) through __builtin__.print
CallPrint ==
    /\ \E force \in {"absent", "true", "false"} :
        printed' =
          IF builtins_print = <<>>
          THEN \* the interpreter's print: force is an invalid keyword
               IF force = "absent"
               THEN [called |-> TRUE, force |-> force, emitted |-> TRUE,
                     force_passed |-> FALSE, err |-> ""]
               ELSE [called |-> TRUE, force |-> force, emitted |-> FALSE,
                     force_passed |-> TRUE, err |-> "TypeError"]
          ELSE [called |-> TRUE, force |-> force,
                emitted |-> emits(builtins_print, Len(builtins_print),
                                  force = "true"),
                force_passed |-> FALSE, err |-> ""]
    /\ UNCHANGED builtins_print
    /\ onnx_unchanged
    /\ UNCHANGED <<device, devices>>

NextPrint == CallSetupPrint \/ CallSetupDistributed \/ CallPrint

SpecPrint == InitDist /\ [][NextPrint]_vars

MostRecent == builtins_print[Len(builtins_print)]

\* C9 as stated: after one or more setup_print calls, print(..., force=f)
\* emits iff the is_main of the most recent setup_print call is true or f is
\* true (so force=True always emits), and force is never passed on.
C9_MostRecentDecides ==
    (printed.called /\ Len(builtins_print) >= 1) =>
        /\ printed.emitted <=> (MostRecent.is_main \/ printed.force = "true")
        /\ ~printed.force_passed

\* what does hold: after exactly one setup_print call
C9_SingleSetup ==
    (printed.called /\ Len(builtins_print) = 1) =>
        /\ printed.emitted <=> (MostRecent.is_main \/ printed.force = "true")
        /\ ~printed.force_passed

C9_ForcedPrintSwallowed ==
    /\ printed.called /\ printed.force = "true" /\ ~printed.emitted
    /\ Len(builtins_print) = 2

====
